---- MODULE Spec2Model ----
(***************************************************************************)
(* Deployment lifecycle orchestration of bragi-builder: the /deploy and    *)
(* /deploy-environment routes, DeploymentManager.deploy_template and       *)
(* list_deployments, the monitor_deployment_status thread (Poller), the    *)
(* deployment_statuses map, the socket events and the History Store.       *)
(***************************************************************************)
EXTENDS Integers, Sequences, FiniteSets, TLC

VARIABLES
    now,                  \* wall clock, whole seconds
    azure,                \* provider side: sequence of [rg, name, state, timestamp]
    changes,              \* number of provider-side transitions so far
    deployments,          \* DeploymentManager.deployments, in insertion order
    deployment_statuses,  \* app.deployment_statuses: name -> tracking entry
    store,                \* rows of the deployments table of DeploymentStore
    threads,              \* monitor_deployment_status threads, in spawn order
    events,               \* socketio.emit calls of each thread, in order
    reqs,                 \* number of requests handled so far
    response,             \* outcome of the last request
    begin_calls,          \* number of begin_create_or_update calls made
    listed,               \* return value of the last list_deployments call
    storeop,              \* the last DeploymentStore call made directly, and its result
    delete_operations,    \* DeploymentManager.delete_operations: resource group -> entry
    delete_response,      \* return value of the last delete_environment / check_delete_progress
    error_result          \* arguments and return value of the last get_deployment_errors call

\* the variables of the store, deletion and diagnostics interfaces
apivars == <<storeop, delete_operations, delete_response, error_result>>

vars == <<now, azure, changes, deployments, deployment_statuses, store,
          threads, events, reqs, response, begin_calls, listed, apivars>>

----------------------------------------------------------------------------
(* Program constants *)

\* time.sleep(10)
PollInterval == 10

\* status_count % 6 == 0
HeartbeatEvery == 6

\* current_status in ['Succeeded', 'Failed', 'Canceled']
Terminal == {"Succeeded", "Failed", "Canceled"}

(* Bounds of the model *)

\* seconds by which the clock may run ahead of a multiple of the poll interval
MaxJitter == 1

\* requests handled in one run
MaxRequests == 3

\* Pollers running concurrently
MaxThreads == 2

\* provider-side transitions in one run with concurrent Pollers
MaxChanges == 2

\* provider-side transitions in one run of listing calls
MaxListChanges == 1

\* polls of one Poller when Pollers run concurrently
MaxPolls == 1

\* provider-side transitions in one run with a single Poller
MaxSoloChanges == 3

\* polls of the Poller when it runs alone
MaxSoloPolls == 20

\* DeploymentStore calls made directly in one run
MaxStoreOps == 3

\* delete_environment and check_delete_progress calls in one run
MaxDeleteOps == 4

\* polls of the Poller in a run with cancellation and status queries
MaxCancelPolls == 3

\* provider-side transitions in a run with cancellation and status queries
MaxCancelChanges == 2

\* detail errors under the top-level error of a failed deployment
MaxDetails == 2

\* detail errors nested under one detail error
MaxNested == 1

\* deployment operations the provider lists for one deployment
MaxOperations == 2

\* rows of the deployments table in one run of direct DeploymentStore calls
MaxStoreRows == 2

----------------------------------------------------------------------------
(* The environment: templates, resource groups, provider states *)

NonTerminal == {"Accepted", "Running"}

ProvStates == NonTerminal \cup Terminal

\* Templates a /deploy request may name: one valid, one that fails
\* validate_template, one that get_template does not find.
DeployTemplates == {"tmplA", "tmplBad", "tmplNone"}

EnvTemplate == "complete-environment"

\* TemplateManager.get_template: None when the file does not exist
get_template(template_name) ==
    IF template_name \in {"tmplA", "tmplBad", EnvTemplate} THEN template_name ELSE "None"

\* TemplateManager.validate_template(template)["valid"]
validate_template(template) == template \in {"tmplA", EnvTemplate}

DeployRGs == {"rg1", "rg2"}

EnvRG == "bragi-dev-rg"

\* list_resource_groups() order
RGOrder == <<"rg1", "rg2", EnvRG>>

\* rg.tags of the resource groups (create_resource_group defaults merged with
\* the tags of the /deploy route and of create_environment_deployment)
RGTags(rg) ==
    IF rg = "rg1" THEN [CreatedBy |-> "Bragi Builder", DeploymentType |-> "Manual Template",
                        TemplateName |-> "tmplA", Environment |-> "Manual", Project |-> "Bragi"]
    ELSE IF rg = "rg2" THEN [CreatedBy |-> "Bragi Builder", DeploymentType |-> "Environment",
                        TemplateName |-> "unknown", Environment |-> "dev", Project |-> "Bragi"]
    ELSE [CreatedBy |-> "Bragi Builder", DeploymentType |-> "Complete Environment",
          TemplateName |-> "unknown", Environment |-> "dev", Project |-> "bragi"]

\* Names of deployments made directly against the provider
ExternalNames == {<<"manual", 0>>}

NoName == <<"None", 0>>

----------------------------------------------------------------------------
(* Python dict helpers *)

\* dict as a function: d[k] = v
Put(d, k, v) == [x \in DOMAIN d \cup {k} |-> IF x = k THEN v ELSE d[x]]

\* del d[k]
Del(d, k) == [x \in DOMAIN d \ {k} |-> d[x]]

\* insertion-ordered dict as a sequence of entries with field key
Keys(d) == {d[i].key : i \in 1..Len(d)}

IndexOf(d, k) == CHOOSE i \in 1..Len(d) : d[i].key = k

Get(d, k) == d[IndexOf(d, k)]

\* d[k] = v keeps the position of an existing key, else appends
PutOrdered(d, k, v) ==
    IF k \in Keys(d) THEN [d EXCEPT ![IndexOf(d, k)] = v] ELSE Append(d, v)

----------------------------------------------------------------------------
(* Provider Gateway *)

AzIndex(az, rg, name) == {i \in 1..Len(az) : az[i].rg = rg /\ az[i].name = name}

AzHas(az, rg, name) == AzIndex(az, rg, name) # {}

AzState(az, rg, name) == az[CHOOSE i \in AzIndex(az, rg, name) : TRUE].state

\* resource_client.deployments.begin_create_or_update accepted by the provider
\* (a deployment of that name in that resource group is started again)
begin_create_or_update(az, rg, name, t) ==
    IF AzHas(az, rg, name)
    THEN [i \in 1..Len(az) |-> IF az[i].rg = rg /\ az[i].name = name
                               THEN [az[i] EXCEPT !.state = "Accepted", !.timestamp = t] ELSE az[i]]
    ELSE Append(az, [rg |-> rg, name |-> name, state |-> "Accepted", timestamp |-> t])

----------------------------------------------------------------------------
(* History Store *)

\* The value of the expression datetime.datetime.now() in app.py: line 9
\* binds datetime to the module, line 13 rebinds it to the class, which has
\* no attribute datetime, so the expression raises AttributeError.
datetime_datetime_now(t) == "AttributeError"

\* json.dumps(x) if x else None: None and an empty collection are both stored
\* as NULL
Blob(x) == IF x \in {"None", "Empty"} THEN "None" ELSE x

\* json.loads(x) if x else None
Loads(x) == IF x = "None" THEN "None" ELSE x

\* the columns update_deployment passes through json.dumps
JsonColumns == {"parameters", "outputs", "error_details", "resource_types"}

\* DeploymentRecord(...): id, created_at and updated_at default to None.
\* Nullable fields are sequences: <<>> is None / NULL, <<v>> is the value v.
DeploymentRecord(name, rg, template_name, status, start_time, end_time, duration_seconds, parameters, outputs, error_details) ==
    [id |-> <<>>, deployment_name |-> name, resource_group |-> rg,
     template_name |-> template_name, status |-> status,
     start_time |-> start_time, end_time |-> end_time,
     duration_seconds |-> duration_seconds, parameters |-> parameters,
     outputs |-> outputs, error_details |-> error_details,
     created_at |-> <<>>, updated_at |-> <<>>]

\* DeploymentStore.create_deployment at time t: INSERT, no uniqueness
\* constraint; id is the AUTOINCREMENT key
create_deployment(st, record, t) ==
    Append(st, [record EXCEPT !.id = <<Len(st) + 1>>,
                              !.parameters = Blob(record.parameters),
                              !.outputs = Blob(record.outputs),
                              !.error_details = Blob(record.error_details),
                              !.created_at = <<t>>,
                              !.updated_at = <<t>>])

\* DeploymentStore._row_to_record
row_to_record(row) ==
    [row EXCEPT !.parameters = Loads(row.parameters),
                !.outputs = Loads(row.outputs),
                !.error_details = Loads(row.error_details)]

\* DeploymentStore.get_deployment: SELECT ... fetchone(); <<>> stands for None
get_deployment(st, name) ==
    IF \E i \in 1..Len(st) : st[i].deployment_name = name
    THEN <<row_to_record(st[CHOOSE i \in 1..Len(st) : st[i].deployment_name = name
                                        /\ \A j \in 1..(i-1) : st[j].deployment_name # name])>>
    ELSE <<>>

\* end_time bound to the time of the call, as updated_at is
UpdateValueStampsEndTime(updates, c, t) ==
    IF c \in JsonColumns THEN Blob(updates[c])
    ELSE IF c \in {"updated_at", "end_time"} THEN <<t>>
    ELSE updates[c]

\* the value update_deployment binds to column c
UpdateValue(updates, c, t) ==
    IF c \in JsonColumns THEN Blob(updates[c])
    ELSE IF c = "updated_at" THEN <<t>>
    ELSE updates[c]

\* DeploymentStore.update_deployment at time t: updates is a dict, a function
\* from column names to values; UPDATE ... SET every key WHERE deployment_name
update_deployment(st, name, updates, t) ==
    IF DOMAIN updates = {} THEN st
    ELSE [i \in 1..Len(st) |->
            IF st[i].deployment_name = name
            THEN [c \in DOMAIN st[i] |->
                    IF c \in DOMAIN updates THEN UpdateValue(updates, c, t) ELSE st[i][c]]
            ELSE st[i]]

\* record_deployment_start: the record's start_time is evaluated first; an
\* exception is caught and printed, and nothing is stored.
record_deployment_start(st, name, rg, template_name, t) ==
    IF datetime_datetime_now(t) = "AttributeError" THEN st
    ELSE create_deployment(st, DeploymentRecord(name, rg, template_name, "Running",
            <<t>>, <<>>, <<>>, "Empty", "None", "None"), t)

\* record_deployment_completion: the record's end_time is evaluated before the
\* store is read; an exception is caught and printed, and nothing is stored.
record_deployment_completion(st, deps, name, rg, status, duration_seconds, outputs, error_details, t) ==
    IF datetime_datetime_now(t) = "AttributeError" THEN st
    ELSE IF get_deployment(st, name) # <<>>
         THEN update_deployment(st, name, [status |-> status,
                  end_time |-> <<t>>,
                  duration_seconds |-> <<duration_seconds>>,
                  outputs |-> outputs, error_details |-> error_details,
                  updated_at |-> <<t>>], t)
         ELSE create_deployment(st, DeploymentRecord(name, rg,
                  IF name \in Keys(deps) THEN Get(deps, name).template_name ELSE "unknown",
                  status,
                  IF name \in Keys(deps) THEN <<Get(deps, name).start_time>> ELSE <<>>,
                  <<t>>, <<duration_seconds>>,
                  IF name \in Keys(deps) THEN "Empty" ELSE "None",
                  outputs, error_details), t)

----------------------------------------------------------------------------
(* Submitter *)

\* the entry deploy_template stores: it has no 'deployment_name' key
TemplateEntry(name, template_name, rg, t) ==
    [key |-> name, keyed |-> FALSE, template_name |-> template_name,
     resource_group |-> rg, status |-> "started", start_time |-> t,
     error_details |-> "None"]

DeployResult(ok, error, name, deps, az, calls) ==
    [ok |-> ok, error |-> error, deployment_name |-> name,
     deployments |-> deps, azure |-> az, begin_calls |-> calls]

\* the entry stored before the provider has accepted the start call
deploy_template_RegisterFirst(deps, az, calls, template_name, rg, t, accepted) ==
    LET name == <<template_name, t>> IN
    IF get_template(template_name) = "None"
    THEN DeployResult(FALSE, "NotFound", NoName, deps, az, calls)
    ELSE IF ~validate_template(get_template(template_name))
    THEN DeployResult(FALSE, "ValidationFailed", NoName, deps, az, calls)
    ELSE IF ~accepted
    THEN DeployResult(FALSE, "SubmissionFailed", NoName,
            PutOrdered(deps, name, TemplateEntry(name, template_name, rg, t)), az, calls + 1)
    ELSE DeployResult(TRUE, "None", name,
            PutOrdered(deps, name, TemplateEntry(name, template_name, rg, t)),
            begin_create_or_update(az, rg, name, t), calls + 1)

\* DeploymentManager.deploy_template; accepted is the provider's answer to
\* begin_create_or_update
deploy_template(deps, az, calls, template_name, rg, t, accepted) ==
    LET name == <<template_name, t>> IN
    IF get_template(template_name) = "None"
    THEN DeployResult(FALSE, "NotFound", NoName, deps, az, calls)
    ELSE IF ~validate_template(get_template(template_name))
    THEN DeployResult(FALSE, "ValidationFailed", NoName, deps, az, calls)
    ELSE IF ~accepted
    THEN DeployResult(FALSE, "SubmissionFailed", NoName, deps, az, calls + 1)
    ELSE DeployResult(TRUE, "None", name,
            PutOrdered(deps, name, TemplateEntry(name, template_name, rg, t)),
            begin_create_or_update(az, rg, name, t), calls + 1)

\* a thread object created for monitor_deployment_status, not yet run
NewThread(name, rg) ==
    [name |-> name, rg |-> rg, pc |-> "start", start_time |-> 0,
     last_status |-> "None", status_count |-> 0, cur |-> "None",
     elapsed |-> 0, wake |-> 0, polled |-> <<>>, diag |-> "None",
     cancelled_at |-> "None"]

\* POST /deploy for an existing resource group
Deploy(template_name, rg, accepted) ==
    /\ reqs < MaxRequests
    /\ LET r == deploy_template(deployments, azure, begin_calls, template_name, rg, now, accepted) IN
       /\ deployments' = r.deployments
       /\ azure' = r.azure
       /\ begin_calls' = r.begin_calls
       /\ IF r.ok
          THEN /\ deployment_statuses' = Put(deployment_statuses, r.deployment_name,
                                             [status |-> "Running", completed |-> FALSE, elapsed_time |-> 0])
               /\ store' = record_deployment_start(store, r.deployment_name, rg, template_name, now)
               /\ threads' = Append(threads, NewThread(r.deployment_name, rg))
               /\ events' = Append(events, <<>>)
          ELSE UNCHANGED <<deployment_statuses, store, threads, events>>
       /\ response' = [route |-> "deploy", success |-> r.ok, error |-> r.error,
                       deployment_name |-> r.deployment_name]
    /\ reqs' = reqs + 1
    /\ UNCHANGED <<apivars, now, changes, listed>>

\* POST /deploy-environment: create_environment_deployment, then the response
DeployEnvironment(accepted) ==
    /\ reqs < MaxRequests
    /\ LET r == deploy_template(deployments, azure, begin_calls, EnvTemplate, EnvRG, now, accepted) IN
       /\ deployments' = r.deployments
       /\ azure' = r.azure
       /\ begin_calls' = r.begin_calls
       /\ response' = [route |-> "deploy-environment", success |-> r.ok, error |-> r.error,
                       deployment_name |-> r.deployment_name]
    /\ reqs' = reqs + 1
    /\ UNCHANGED <<apivars, now, changes, deployment_statuses, store, threads, events, listed>>

----------------------------------------------------------------------------
(* Time and the provider *)

\* a second passes
Tick ==
    /\ now % PollInterval < MaxJitter
    /\ now' = now + 1
    /\ UNCHANGED <<apivars, azure, changes, deployments, deployment_statuses, store,
                   threads, events, reqs, response, begin_calls, listed>>

\* the provider moves a running deployment to another provisioning state
ProviderStep(i, s, maxchanges) ==
    /\ i \in 1..Len(azure)
    /\ changes < maxchanges
    /\ azure[i].state \in NonTerminal
    /\ s # azure[i].state
    /\ azure' = [azure EXCEPT ![i].state = s]
    /\ changes' = changes + 1
    /\ UNCHANGED <<apivars, now, deployments, deployment_statuses, store, threads,
                   events, reqs, response, begin_calls, listed>>

\* a deployment is deleted on the provider
ProviderDelete(i, maxchanges) ==
    /\ i \in 1..Len(azure)
    /\ changes < maxchanges
    /\ azure' = [j \in 1..(Len(azure) - 1) |-> IF j < i THEN azure[j] ELSE azure[j + 1]]
    /\ changes' = changes + 1
    /\ UNCHANGED <<apivars, now, deployments, deployment_statuses, store, threads,
                   events, reqs, response, begin_calls, listed>>

----------------------------------------------------------------------------
(* Poller: monitor_deployment_status *)

Max(a, b) == IF a >= b THEN a ELSE b

\* the heartbeat test made after status_count += 1 instead of before it
ShouldEmitAfterIncrement(current_status, last_status, status_count) ==
    current_status # last_status \/ (status_count + 1) % HeartbeatEvery = 0

\* the status-change test left out
ShouldEmitHeartbeatOnly(current_status, last_status, status_count) ==
    status_count % HeartbeatEvery = 0

\* the heartbeat test left out
ShouldEmitChangeOnly(current_status, last_status, status_count) ==
    current_status # last_status

\* if current_status != last_status or status_count % 6 == 0
ShouldEmit(current_status, last_status, status_count) ==
    current_status # last_status \/ status_count % HeartbeatEvery = 0

\* a socketio.emit call; poll and thread are not payload fields: they record
\* which poll of which thread made the call
Event(topic, t, status, completed, error_details) ==
    [topic |-> topic, deployment_name |-> threads[t].name, status |-> status,
     elapsed_time |-> now - threads[t].start_time, completed |-> completed,
     error_details |-> error_details, poll |-> Len(threads[t].polled), thread |-> t]

\* the except handler: emit deployment_error, then the finally block is next
Raise(t, error) ==
    /\ events' = [events EXCEPT ![t] = Append(@, Event("deployment_error", t, error, FALSE, "None"))]
    /\ threads' = [threads EXCEPT ![t].pc = "finally"]

\* start_time = time.time() on the first pass, the wake-up from time.sleep(10)
\* on the later ones, then the loop's check of deployment_statuses
PCheck(t) ==
    /\ t \in 1..Len(threads)
    /\ threads[t].pc \in {"start", "sleep"}
    /\ now' = IF threads[t].pc = "sleep" THEN Max(now, threads[t].wake) ELSE now
    /\ threads' = [threads EXCEPT
            ![t].start_time = IF threads[t].pc = "start" THEN now ELSE @,
            ![t].pc = IF threads[t].name \in DOMAIN deployment_statuses THEN "poll" ELSE "finally"]
    /\ UNCHANGED <<apivars, azure, changes, deployments, deployment_statuses, store,
                   events, reqs, response, begin_calls, listed>>

\* the error event emitted, then the next poll awaited
DeploymentNotFoundKeepsPolling(t) ==
    /\ events' = [events EXCEPT ![t] = Append(@, Event("deployment_error", t, "NotFound", FALSE, "None"))]
    /\ threads' = [threads EXCEPT ![t].wake = now + PollInterval, ![t].pc = "sleep"]

\* the else branch of "if status": emit deployment_error, break; the finally
\* block is next
DeploymentNotFound(t) ==
    /\ events' = [events EXCEPT ![t] = Append(@, Event("deployment_error", t, "NotFound", FALSE, "None"))]
    /\ threads' = [threads EXCEPT ![t].pc = "finally"]

\* azure_client.get_deployment_status: raises, returns None, or the state
PPoll(t, raises, maxpolls) ==
    /\ t \in 1..Len(threads)
    /\ threads[t].pc = "poll"
    /\ threads[t].status_count < maxpolls
    /\ IF raises
       THEN Raise(t, "PollError")
       ELSE IF ~AzHas(azure, threads[t].rg, threads[t].name)
       THEN DeploymentNotFound(t)
       ELSE /\ threads' = [threads EXCEPT
                    ![t].cur = AzState(azure, threads[t].rg, threads[t].name),
                    ![t].polled = Append(@, AzState(azure, threads[t].rg, threads[t].name)),
                    ![t].pc = "update"]
            /\ UNCHANGED events
    /\ UNCHANGED <<apivars, now, azure, changes, deployments, deployment_statuses, store,
                   reqs, response, begin_calls, listed>>

\* the status branch up to status_count += 1: registry updates and the
\* coalesced emission
PUpdate(t) ==
    /\ t \in 1..Len(threads)
    /\ threads[t].pc = "update"
    /\ LET th == threads[t]
           name == th.name
           emit == ShouldEmit(th.cur, th.last_status, th.status_count)
       IN IF name \notin DOMAIN deployment_statuses
          THEN /\ Raise(t, "KeyError")
               /\ UNCHANGED <<deployment_statuses, deployments>>
          ELSE /\ deployment_statuses' = [deployment_statuses EXCEPT
                        ![name].status = th.cur, ![name].elapsed_time = now - th.start_time]
               /\ deployments' = IF name \in Keys(deployments)
                                 THEN [deployments EXCEPT ![IndexOf(deployments, name)].status = th.cur]
                                 ELSE deployments
               /\ events' = IF emit
                            THEN [events EXCEPT ![t] = Append(@, Event("deployment_update", t, th.cur, FALSE, "None"))]
                            ELSE events
               /\ threads' = [threads EXCEPT
                        ![t].elapsed = now - th.start_time,
                        ![t].last_status = IF emit THEN th.cur ELSE @,
                        ![t].status_count = @ + 1,
                        ![t].wake = now + PollInterval,
                        ![t].pc = IF th.cur \in Terminal THEN "terminal" ELSE "sleep"]
    /\ UNCHANGED <<apivars, now, azure, changes, store, reqs, response, begin_calls, listed>>

\* outcomes of get_deployment_errors: success=False, success with an empty
\* errors list, success with a non-empty errors list
DiagOutcomes == {"Unavailable", "Empty", "Diag"}

\* error_details after the "if current_status == 'Failed'" block
ErrorDetails(current_status, diag) ==
    IF current_status = "Failed" /\ diag \in {"Empty", "Diag"} THEN diag ELSE "None"

\* outputs of a provider deployment: set once it has succeeded
Outputs(current_status) == IF current_status = "Succeeded" THEN "Out" ELSE "Empty"

\* the first statement of the terminal branch:
\* deployment_statuses[deployment_name]['completed'] = True
PMark(t) ==
    /\ t \in 1..Len(threads)
    /\ threads[t].pc = "terminal"
    /\ IF threads[t].name \notin DOMAIN deployment_statuses
       THEN /\ Raise(t, "KeyError")
            /\ UNCHANGED deployment_statuses
       ELSE /\ deployment_statuses' = [deployment_statuses EXCEPT ![threads[t].name].completed = TRUE]
            /\ threads' = [threads EXCEPT ![t].pc = "finalize"]
            /\ UNCHANGED events
    /\ UNCHANGED <<apivars, now, azure, changes, deployments, store, reqs, response,
                   begin_calls, listed>>

\* the rest of the terminal branch, which does not read deployment_statuses:
\* diagnostics, final update of deployment_manager.deployments, History Store
\* record, final event
PTerminal(t, diag) ==
    /\ t \in 1..Len(threads)
    /\ threads[t].pc = "finalize"
    /\ LET th == threads[t]
           name == th.name
           error_details == ErrorDetails(th.cur, diag)
       IN /\ deployments' = IF name \in Keys(deployments)
                            THEN [deployments EXCEPT
                                   ![IndexOf(deployments, name)].status = th.cur,
                                   ![IndexOf(deployments, name)].error_details =
                                       IF error_details = "Diag" THEN "Diag" ELSE @]
                            ELSE deployments
          /\ store' = record_deployment_completion(store, deployments, name, th.rg,
                           th.cur, th.elapsed, Outputs(th.cur), error_details, now)
          /\ events' = [events EXCEPT ![t] = Append(@,
                           [topic |-> "deployment_update", deployment_name |-> name,
                            status |-> th.cur, elapsed_time |-> th.elapsed,
                            completed |-> TRUE,
                            error_details |-> IF error_details = "Diag" THEN "Diag" ELSE "None",
                            poll |-> Len(th.polled), thread |-> t])]
          /\ threads' = [threads EXCEPT
                   ![t].diag = IF th.cur = "Failed" THEN diag ELSE "None",
                   ![t].pc = "finally"]
    /\ UNCHANGED <<apivars, now, azure, changes, deployment_statuses, reqs, response,
                   begin_calls, listed>>

\* finally without the removal of the entry
PFinallyKeepsEntry(t) ==
    /\ t \in 1..Len(threads)
    /\ threads[t].pc = "finally"
    /\ threads' = [threads EXCEPT ![t].pc = "done"]
    /\ UNCHANGED <<apivars, now, azure, changes, deployments, deployment_statuses,
                   store, events, reqs, response, begin_calls, listed>>

\* finally: del deployment_statuses[deployment_name] when it is present
PFinally(t) ==
    /\ t \in 1..Len(threads)
    /\ threads[t].pc = "finally"
    /\ deployment_statuses' = IF threads[t].name \in DOMAIN deployment_statuses
                              THEN Del(deployment_statuses, threads[t].name)
                              ELSE deployment_statuses
    /\ threads' = [threads EXCEPT ![t].pc = "done"]
    /\ UNCHANGED <<apivars, now, azure, changes, deployments, store, events, reqs,
                   response, begin_calls, listed>>

\* del deployment_statuses[deployment_name] executed outside Poller t while it
\* runs: the statement of the finally block, reached by other code holding
\* the name; cancelled_at records where Poller t was.
Cancel(t) ==
    /\ t \in 1..Len(threads)
    /\ threads[t].pc \notin {"finally", "done"}
    /\ threads[t].cancelled_at = "None"
    /\ threads[t].name \in DOMAIN deployment_statuses
    /\ deployment_statuses' = Del(deployment_statuses, threads[t].name)
    /\ threads' = [threads EXCEPT ![t].cancelled_at = threads[t].pc]
    /\ UNCHANGED <<apivars, now, azure, changes, deployments, store, events, reqs,
                   response, begin_calls, listed>>

\* socket request get_deployment_status: the entry, or 'Deployment not found'
handle_get_deployment_status(name) ==
    /\ response' = [route |-> "get_deployment_status",
                    success |-> name \in DOMAIN deployment_statuses,
                    error |-> IF name \in DOMAIN deployment_statuses THEN "None" ELSE "NotFound",
                    deployment_name |-> name]
    /\ UNCHANGED <<apivars, now, azure, changes, deployments, deployment_statuses,
                   store, threads, events, reqs, begin_calls, listed>>

----------------------------------------------------------------------------
(* Status query: DeploymentManager.get_deployment_status *)

\* _find_deployment_in_azure: the first resource group tagged CreatedBy
\* 'Bragi Builder', in listing order from j on, that has the deployment; 0
\* when there is none
RECURSIVE FindGroup(_, _, _)
FindGroup(az, name, j) ==
    IF j > Len(RGOrder) THEN 0
    ELSE IF RGTags(RGOrder[j]).CreatedBy = "Bragi Builder" /\ AzHas(az, RGOrder[j], name)
    THEN j
    ELSE FindGroup(az, name, j + 1)

\* the deployment_info _find_deployment_in_azure reconstructs
FoundEntry(az, name, rg) ==
    [key |-> name, keyed |-> TRUE, template_name |-> EnvTemplate, resource_group |-> rg,
     status |-> AzState(az, rg, name),
     start_time |-> az[CHOOSE i \in AzIndex(az, rg, name) : TRUE].timestamp,
     error_details |-> "None"]

\* get_deployment_status: the deployments map after the call; raises - the
\* provider's status call raises; diag - the outcome of get_deployment_errors
get_deployment_status(deps, az, name, raises, diag) ==
    LET known == name \in Keys(deps)
        j == FindGroup(az, name, 1)
    IN IF ~known /\ j = 0 THEN [found |-> FALSE, error |-> "NotFound", deployments |-> deps]
       ELSE LET info == IF known THEN Get(deps, name) ELSE FoundEntry(az, name, RGOrder[j])
                rg == info.resource_group
            IN IF raises THEN [found |-> TRUE, error |-> "error", deployments |-> deps]
               ELSE IF ~AzHas(az, rg, name) THEN [found |-> TRUE, error |-> "None", deployments |-> deps]
               ELSE LET state == AzState(az, rg, name)
                        updated == [info EXCEPT
                            !.status = state,
                            !.error_details = IF state = "Failed" /\ diag \in {"Empty", "Diag"}
                                              THEN diag ELSE @]
                    IN [found |-> TRUE, error |-> "None",
                        deployments |-> PutOrdered(deps, name, updated)]

\* GET /deployments/<deployment_name>/status
GetStatus(name, raises, diag) ==
    /\ reqs < MaxRequests
    /\ LET r == get_deployment_status(deployments, azure, name, raises, diag) IN
       /\ deployments' = r.deployments
       /\ response' = [route |-> "status", success |-> r.found /\ r.error = "None",
                       error |-> r.error, deployment_name |-> name]
    /\ reqs' = reqs + 1
    /\ UNCHANGED <<apivars, now, azure, changes, deployment_statuses, store, threads,
                   events, begin_calls, listed>>

----------------------------------------------------------------------------
(* Reconciler: DeploymentManager.list_deployments *)

\* rg.tags and CreatedBy == 'Bragi Builder' and DeploymentType in [...]
Owned(tags) ==
    tags.CreatedBy = "Bragi Builder" /\ tags.DeploymentType \in {"Manual Template", "Environment"}

\* any(dep['deployment_name'] == deployment_name for dep in tracked_deployments):
\* a dict without that key raises KeyError when the scan reaches it
RECURSIVE AnyTracked(_, _, _)
AnyTracked(tracked, name, i) ==
    IF i > Len(tracked) THEN "False"
    ELSE IF ~tracked[i].keyed THEN "KeyError"
    ELSE IF tracked[i].key = name THEN "True"
    ELSE AnyTracked(tracked, name, i + 1)

\* deployment_info of a discovered deployment
DiscoveredEntry(d, diag) ==
    [key |-> d.name, keyed |-> TRUE,
     template_name |-> RGTags(d.rg).TemplateName, resource_group |-> d.rg,
     status |-> d.state, start_time |-> d.timestamp,
     error_details |-> IF d.state = "Failed" /\ diag \in {"Empty", "Diag"} THEN diag ELSE "None"]

\* the loop over the deployments of one resource group, from item k on; an
\* exception ends the loop for this resource group
RECURSIVE ScanGroup(_, _, _, _)
ScanGroup(tracked, items, k, diag) ==
    IF k > Len(items) THEN tracked
    ELSE LET known == AnyTracked(tracked, items[k].name, 1) IN
         IF known = "KeyError" THEN tracked
         ELSE IF known = "True" THEN ScanGroup(tracked, items, k + 1, diag)
         ELSE ScanGroup(Append(tracked, DiscoveredEntry(items[k], diag)), items, k + 1, diag)

\* deployments.list_by_resource_group(rg)
list_by_resource_group(az, rg) == SelectSeq(az, LAMBDA d : d.rg = rg)

\* the loop over the resource groups, from group j on; failing are the
\* resource groups whose deployment listing raises
RECURSIVE ScanGroups(_, _, _, _, _)
ScanGroups(tracked, az, j, failing, diag) ==
    IF j > Len(RGOrder) THEN tracked
    ELSE IF ~Owned(RGTags(RGOrder[j])) \/ RGOrder[j] \in failing
         THEN ScanGroups(tracked, az, j + 1, failing, diag)
         ELSE ScanGroups(ScanGroup(tracked, list_by_resource_group(az, RGOrder[j]), 1, diag),
                         az, j + 1, failing, diag)

\* list_deployments: tracked_deployments at the return; self.deployments
\* holds the same entries in the same order
list_deployments(deps, az, rg_list_raises, failing, diag) ==
    IF rg_list_raises THEN deps ELSE ScanGroups(deps, az, 1, failing, diag)

\* GET /deployments
ListDeployments(rg_list_raises, failing, diag) ==
    /\ reqs < MaxRequests
    /\ LET result == list_deployments(deployments, azure, rg_list_raises, failing, diag) IN
       /\ deployments' = result
       /\ listed' = [result |-> result, before |-> deployments,
                     rg_list_raised |-> rg_list_raises, failing |-> failing]
    /\ response' = [route |-> "list", success |-> TRUE, error |-> "None", deployment_name |-> NoName]
    /\ reqs' = reqs + 1
    /\ UNCHANGED <<apivars, now, azure, changes, deployment_statuses, store, threads, events, begin_calls>>

\* a deployment is made directly against the provider
ProviderCreate(rg, name) ==
    /\ ~AzHas(azure, rg, name)
    /\ azure' = Append(azure, [rg |-> rg, name |-> name, state |-> "Accepted", timestamp |-> now])
    /\ UNCHANGED <<apivars, now, changes, deployments, deployment_statuses, store, threads,
                   events, reqs, response, begin_calls, listed>>

----------------------------------------------------------------------------
(* Clients of DeploymentStore: create_deployment, update_deployment and        *)
(* get_deployment called with any arguments                                     *)

\* every variable of the application but the History Store
corevars == <<now, azure, changes, deployments, deployment_statuses, threads,
              events, reqs, response, begin_calls, listed>>

StoreNames == {<<"tmplA", 0>>, <<"tmplB", 0>>}

\* a blob argument: None, an empty collection, a non-empty collection
Blobs == {"None", "Empty", "Val"}

\* the records the application builds: a start record (Running, no end_time),
\* a complete Succeeded record with outputs, a complete Failed record with
\* error_details
StoreRecords(t) ==
    {DeploymentRecord(n, "rg1", "tmplA", "Running", <<t>>, <<>>, <<>>, p, "None", "None") :
        n \in StoreNames, p \in Blobs}
    \cup {DeploymentRecord(n, "rg1", "tmplA", "Succeeded", <<0>>, <<t>>, <<PollInterval>>, "Empty", o, "None") :
        n \in StoreNames, o \in Blobs}
    \cup {DeploymentRecord(n, "rg1", "tmplA", "Failed", <<0>>, <<t>>, <<PollInterval>>, "Empty", "Empty", e) :
        n \in StoreNames, e \in Blobs}

\* the updates of record_deployment_completion
FinalPayloads(t) ==
    {[status |-> "Succeeded", end_time |-> <<t>>, duration_seconds |-> <<PollInterval>>,
      outputs |-> o, error_details |-> "None", updated_at |-> <<t>>] : o \in {"Empty", "Val"}}
    \cup {[status |-> "Failed", end_time |-> <<t>>, duration_seconds |-> <<PollInterval>>,
           outputs |-> "Empty", error_details |-> e, updated_at |-> <<t>>] : e \in Blobs}

\* updates dicts that name some of the columns only: the status alone,
\* end_time with duration_seconds (null or set), updated_at alone, and the
\* empty dict
PartialPayloads(t) ==
    {[status |-> s] : s \in {"Running", "Succeeded"}}
    \cup {[end_time |-> <<>>, duration_seconds |-> <<>>],
          [end_time |-> <<t>>, duration_seconds |-> <<PollInterval>>],
          [updated_at |-> <<t>>],
          [c \in {} |-> c]}

StorePayloads(t) == FinalPayloads(t) \cup PartialPayloads(t)

\* record.created_at = now; record.updated_at = now: the record object as the
\* caller holds it after create_deployment
Stamped(record, t) == [record EXCEPT !.created_at = <<t>>, !.updated_at = <<t>>]

\* deployment_store.create_deployment(record)
StoreCreate(record) ==
    /\ storeop.count < MaxStoreOps
    /\ Len(store) < MaxStoreRows
    /\ store' = create_deployment(store, record, now)
    /\ storeop' = [op |-> "create", count |-> storeop.count + 1,
                   name |-> record.deployment_name,
                   record |-> <<Stamped(record, now)>>, updates |-> <<>>,
                   result |-> <<>>, ok |-> TRUE]
    /\ UNCHANGED <<corevars, delete_operations, delete_response, error_result>>

\* deployment_store.update_deployment(name, updates); the result is
\* cursor.rowcount > 0, False for an empty dict
StoreUpdate(name, updates) ==
    /\ storeop.count < MaxStoreOps
    /\ store' = update_deployment(store, name, updates, now)
    /\ storeop' = [op |-> "update", count |-> storeop.count + 1,
                   name |-> name, record |-> <<>>, updates |-> <<updates>>,
                   result |-> <<>>,
                   ok |-> DOMAIN updates # {}
                          /\ \E i \in 1..Len(store) : store[i].deployment_name = name]
    /\ UNCHANGED <<corevars, delete_operations, delete_response, error_result>>

\* deployment_store.get_deployment(name)
StoreGet(name) ==
    /\ storeop.count < MaxStoreOps
    /\ storeop' = [op |-> "get", count |-> storeop.count + 1,
                   name |-> name, record |-> <<>>, updates |-> <<>>,
                   result |-> get_deployment(store, name),
                   ok |-> get_deployment(store, name) # <<>>]
    /\ UNCHANGED <<corevars, store, delete_operations, delete_response, error_result>>

----------------------------------------------------------------------------
(* Diagnostics: DeploymentManager.get_deployment_errors *)

\* an element of the errors list: the top-level error (index 0), detail k of
\* it (index k), or the failed_operations bundle with its op_error dicts
ErrorEntry(type, index, operations) ==
    [type |-> type, index |-> index, operations |-> operations]

\* the op_error dicts of the operations whose provisioning_state is 'Failed',
\* in listing order; resource_name is the operation's position in the listing
FailedOperations(ops) ==
    SelectSeq([i \in 1..Len(ops) |-> [resource_name |-> i, provisioning_state |-> ops[i]]],
              LAMBDA o : o.provisioning_state = "Failed")

\* one bundle appended for every Failed operation
get_deployment_errors_BundlePerOperation(get_raises, has_error, details, ops, ops_raise) ==
    IF get_raises THEN [success |-> FALSE, errors |-> <<>>, total_errors |-> 0]
    ELSE LET main == IF has_error
                     THEN <<ErrorEntry("error", 0, <<>>)>>
                          \o [k \in 1..Len(details) |-> ErrorEntry("detail", k, <<>>)]
                     ELSE <<>>
             failed == FailedOperations(ops)
             bundles == IF ops_raise THEN <<>>
                        ELSE [k \in 1..Len(failed) |->
                                ErrorEntry("failed_operations", 0, <<failed[k]>>)]
         IN [success |-> TRUE, errors |-> main \o bundles,
             total_errors |-> Len(main \o bundles)]

\* get_deployment_errors: get_raises - deployments.get raises; has_error -
\* properties.error is set; details - properties.error.details, each detail
\* given as the number of details nested under it, which the loop over
\* details does not read; ops - the
\* provisioning states of the listed operations; ops_raise - listing or
\* reading the operations raises
get_deployment_errors(get_raises, has_error, details, ops, ops_raise) ==
    IF get_raises THEN [success |-> FALSE, errors |-> <<>>, total_errors |-> 0]
    ELSE LET main == IF has_error
                     THEN <<ErrorEntry("error", 0, <<>>)>>
                          \o [k \in 1..Len(details) |-> ErrorEntry("detail", k, <<>>)]
                     ELSE <<>>
             failed == FailedOperations(ops)
             bundle == IF ~ops_raise /\ failed # <<>>
                       THEN <<ErrorEntry("failed_operations", 0, failed)>>
                       ELSE <<>>
         IN [success |-> TRUE, errors |-> main \o bundle,
             total_errors |-> Len(main \o bundle)]

\* the operation listings of at most n operations
OperationLists(n) == UNION {[1..k -> {"Succeeded", "Failed"}] : k \in 0..n}

\* the details lists of at most n details with at most m details nested
\* under each
DetailLists(n, m) == UNION {[1..k -> 0..m] : k \in 0..n}

\* a call of get_deployment_errors for a deployment on the provider
GetDeploymentErrors(get_raises, has_error, details, ops, ops_raise) ==
    /\ error_result' = [called |-> TRUE, get_raises |-> get_raises, has_error |-> has_error,
                        details |-> Len(details), nested |-> details,
                        operations |-> ops, ops_raise |-> ops_raise,
                        result |-> get_deployment_errors(get_raises, has_error, details, ops, ops_raise)]
    /\ UNCHANGED <<corevars, store, storeop, delete_operations, delete_response>>

----------------------------------------------------------------------------
(* Deletion tracker: delete_environment and check_delete_progress *)

\* resource groups named in deletion calls
DeleteRGs == {EnvRG, "rg1"}

\* what the operation handle does when it is checked: done() is False, done()
\* is True and result() is truthy, done() is True and result() is falsy,
\* done() or result() raises
HandleAnswers == {"not_done", "done_true", "done_false", "raises"}

\* AzureClient.check_delete_status(operation)["status"]
check_delete_status(answer) ==
    IF answer = "raises" THEN "error"
    ELSE IF answer = "done_true" THEN "completed"
    ELSE IF answer = "done_false" THEN "failed"
    ELSE "running"

DeleteResult(ops, success, status, message) ==
    [delete_operations |-> ops, success |-> success, status |-> status, message |-> message]

\* the tracked entry kept after a failed deletion
check_delete_progress_KeepsFailed(ops, rg, answer, t) ==
    IF rg \notin DOMAIN ops
    THEN DeleteResult(ops, FALSE, "None", "NoDeleteOperation")
    ELSE LET status == check_delete_status(answer)
             checked == [ops EXCEPT ![rg].status = status, ![rg].last_checked = <<t>>]
         IN IF status = "completed" THEN DeleteResult(Del(ops, rg), TRUE, "completed", "Deleted")
            ELSE IF status = "failed" THEN DeleteResult(checked, FALSE, "failed", "DeletionFailed")
            ELSE DeleteResult(checked, TRUE, "running", "InProgress")

\* DeploymentManager.check_delete_progress at time t
check_delete_progress(ops, rg, answer, t) ==
    IF rg \notin DOMAIN ops
    THEN DeleteResult(ops, FALSE, "None", "NoDeleteOperation")
    ELSE LET status == check_delete_status(answer)
             checked == [ops EXCEPT ![rg].status = status, ![rg].last_checked = <<t>>]
         IN IF status = "completed" THEN DeleteResult(Del(ops, rg), TRUE, "completed", "Deleted")
            ELSE IF status = "failed" THEN DeleteResult(Del(ops, rg), FALSE, "failed", "DeletionFailed")
            ELSE DeleteResult(checked, TRUE, "running", "InProgress")

\* the entry delete_environment stores for the handle begin_delete returned
DeleteOperation(operation, t) ==
    [operation |-> operation, status |-> "running", started_at |-> t, last_checked |-> <<>>]

\* the entry of a resource group that is already tracked left as it is
delete_environment_KeepsFirst(ops, rg, found, accepted, operation, t) ==
    IF ~found THEN DeleteResult(ops, FALSE, "None", "NotFound")
    ELSE IF ~accepted THEN DeleteResult(ops, FALSE, "None", "FailedToInitiate")
    ELSE DeleteResult(IF rg \in DOMAIN ops THEN ops ELSE Put(ops, rg, DeleteOperation(operation, t)),
                      TRUE, "running", "Initiated")

\* DeploymentManager.delete_environment at time t: found - get_resource_group
\* returns the group; accepted - begin_delete returns the handle operation
delete_environment(ops, rg, found, accepted, operation, t) ==
    IF ~found THEN DeleteResult(ops, FALSE, "None", "NotFound")
    ELSE IF ~accepted THEN DeleteResult(ops, FALSE, "None", "FailedToInitiate")
    ELSE DeleteResult(Put(ops, rg, DeleteOperation(operation, t)),
                      TRUE, "running", "Initiated")

\* a call and what it returned; operation is the handle begin_delete returned
\* to a delete call or the handle a check polled (0: none), answer is the
\* handle's answer at a check, removed are the resource groups whose entry a
\* check has removed and that have not been tracked again since, replaced are
\* the handles whose entry a later delete call has overwritten
DeleteResponse(call, rg, r, operation, answer, removed, replaced) ==
    [call |-> call, resource_group |-> rg, success |-> r.success, status |-> r.status,
     message |-> r.message, operation |-> operation, answer |-> answer,
     removed |-> removed, replaced |-> replaced,
     count |-> delete_response.count + 1]

\* DELETE /environments/<environment> for resource group rg
DeleteEnvironment(rg, found, accepted) ==
    /\ delete_response.count < MaxDeleteOps
    /\ LET operation == delete_response.count + 1
           r == delete_environment(delete_operations, rg, found, accepted, operation, now)
       IN
       /\ delete_operations' = r.delete_operations
       /\ delete_response' = DeleteResponse("delete", rg, r,
                                 IF r.success THEN operation ELSE 0, "None",
                                 IF r.success THEN delete_response.removed \ {rg}
                                 ELSE delete_response.removed,
                                 IF r.success /\ rg \in DOMAIN delete_operations
                                 THEN delete_response.replaced
                                          \cup ({delete_operations[rg].operation} \ {operation})
                                 ELSE delete_response.replaced)
    /\ UNCHANGED <<corevars, store, storeop, error_result>>

\* GET /api/delete-progress/<resource_group>
CheckDeleteProgress(rg, answer) ==
    /\ delete_response.count < MaxDeleteOps
    /\ LET r == check_delete_progress(delete_operations, rg, answer, now) IN
       /\ delete_operations' = r.delete_operations
       /\ delete_response' = DeleteResponse("check", rg, r,
                                 IF rg \in DOMAIN delete_operations
                                 THEN delete_operations[rg].operation ELSE 0,
                                 IF rg \in DOMAIN delete_operations THEN answer ELSE "None",
                                 IF rg \in DOMAIN delete_operations /\ rg \notin DOMAIN r.delete_operations
                                 THEN delete_response.removed \cup {rg}
                                 ELSE delete_response.removed,
                                 delete_response.replaced)
    /\ UNCHANGED <<corevars, store, storeop, error_result>>

----------------------------------------------------------------------------

Init ==
    /\ now = 0
    /\ azure = <<>>
    /\ changes = 0
    /\ deployments = <<>>
    /\ deployment_statuses = <<>>
    /\ store = <<>>
    /\ threads = <<>>
    /\ events = <<>>
    /\ reqs = 0
    /\ response = [route |-> "None", success |-> FALSE, error |-> "None", deployment_name |-> NoName]
    /\ begin_calls = 0
    /\ listed = [result |-> <<>>, before |-> <<>>, rg_list_raised |-> FALSE, failing |-> {}]
    /\ storeop = [op |-> "None", count |-> 0, name |-> NoName, record |-> <<>>,
                  updates |-> <<>>, result |-> <<>>, ok |-> FALSE]
    /\ delete_operations = <<>>
    /\ delete_response = [call |-> "None", resource_group |-> "None", success |-> FALSE,
                          status |-> "None", message |-> "None", operation |-> 0,
                          answer |-> "None", removed |-> {}, replaced |-> {}, count |-> 0]
    /\ error_result = [called |-> FALSE, get_raises |-> FALSE, has_error |-> FALSE,
                       details |-> 0, nested |-> <<>>, operations |-> <<>>,
                       ops_raise |-> FALSE,
                       result |-> [success |-> FALSE, errors |-> <<>>, total_errors |-> 0]]

\* provisioning states the provider moves to while Pollers run concurrently
MainStates == {"Running", "Succeeded", "Failed"}

\* Concurrent Pollers: /deploy requests for the valid template, the provider,
\* the clock and the steps of every Poller, interleaved.
Next ==
    \/ \E rg \in DeployRGs, a \in BOOLEAN : Len(threads) < MaxThreads /\ Deploy("tmplA", rg, a)
    \/ Tick
    \/ \E i \in 1..Len(azure), s \in MainStates : ProviderStep(i, s, MaxChanges)
    \/ \E i \in 1..Len(azure) : ProviderDelete(i, MaxChanges)
    \/ \E t \in 1..Len(threads) : PCheck(t)
    \/ \E t \in 1..Len(threads), raises \in BOOLEAN : PPoll(t, raises, MaxPolls)
    \/ \E t \in 1..Len(threads) : PUpdate(t)
    \/ \E t \in 1..Len(threads) : PMark(t)
    \/ \E t \in 1..Len(threads), diag \in DiagOutcomes : PTerminal(t, diag)
    \/ \E t \in 1..Len(threads) : PFinally(t)

Spec == Init /\ [][Next]_vars

\* One deployment and its Poller, against every provider behaviour.
NextSolo ==
    \/ threads = <<>> /\ Deploy("tmplA", "rg1", TRUE)
    \/ \E i \in 1..Len(azure), s \in ProvStates : ProviderStep(i, s, MaxSoloChanges)
    \/ \E i \in 1..Len(azure) : ProviderDelete(i, MaxSoloChanges)
    \/ \E t \in 1..Len(threads) : PCheck(t)
    \/ \E t \in 1..Len(threads), raises \in BOOLEAN : PPoll(t, raises, MaxSoloPolls)
    \/ \E t \in 1..Len(threads) : PUpdate(t)
    \/ \E t \in 1..Len(threads) : PMark(t)
    \/ \E t \in 1..Len(threads), diag \in DiagOutcomes : PTerminal(t, diag)
    \/ \E t \in 1..Len(threads) : PFinally(t)

SpecSolo == Init /\ [][NextSolo]_vars

\* Submissions through both routes, at the same and at different seconds.
NextSubmit ==
    \/ \E tn \in DeployTemplates, rg \in DeployRGs, a \in BOOLEAN : Deploy(tn, rg, a)
    \/ \E a \in BOOLEAN : DeployEnvironment(a)
    \/ Tick

SpecSubmit == Init /\ [][NextSubmit]_vars

AllRGs == {RGOrder[j] : j \in 1..Len(RGOrder)}

\* Listing calls between submissions and deployments made on the provider.
NextList ==
    \/ \E rg \in DeployRGs : Deploy("tmplA", rg, TRUE)
    \/ DeployEnvironment(TRUE)
    \/ \E rg \in AllRGs, name \in ExternalNames : ProviderCreate(rg, name)
    \/ \E i \in 1..Len(azure) : ProviderStep(i, "Failed", MaxListChanges)
    \/ \E raises \in BOOLEAN, failing \in SUBSET DeployRGs, diag \in {"Unavailable", "Diag"} :
          ListDeployments(raises, failing, diag)

SpecList == Init /\ [][NextList]_vars

\* One deployment and its Poller, with the entry removed from outside at any
\* point and status requests for its name at any time.
NextCancel ==
    \/ threads = <<>> /\ Deploy("tmplA", "rg1", TRUE)
    \/ \E i \in 1..Len(azure), s \in MainStates : ProviderStep(i, s, MaxCancelChanges)
    \/ \E i \in 1..Len(azure) : ProviderDelete(i, MaxCancelChanges)
    \/ \E t \in 1..Len(threads) : PCheck(t)
    \/ \E t \in 1..Len(threads), raises \in BOOLEAN : PPoll(t, raises, MaxCancelPolls)
    \/ \E t \in 1..Len(threads) : PUpdate(t)
    \/ \E t \in 1..Len(threads) : PMark(t)
    \/ \E t \in 1..Len(threads), diag \in DiagOutcomes : PTerminal(t, diag)
    \/ \E t \in 1..Len(threads) : PFinally(t)
    \/ \E t \in 1..Len(threads) : Cancel(t)
    \/ \E t \in 1..Len(threads) : handle_get_deployment_status(threads[t].name)

SpecCancel == Init /\ [][NextCancel]_vars

\* One deployment and its Poller, with status queries and listing calls.
NextQuery ==
    \/ threads = <<>> /\ Deploy("tmplA", "rg1", TRUE)
    \/ \E i \in 1..Len(azure), s \in MainStates : ProviderStep(i, s, MaxChanges)
    \/ \E t \in 1..Len(threads) : PCheck(t)
    \/ \E t \in 1..Len(threads) : PPoll(t, FALSE, MaxCancelPolls)
    \/ \E t \in 1..Len(threads) : PUpdate(t)
    \/ \E t \in 1..Len(threads) : PMark(t)
    \/ \E t \in 1..Len(threads), diag \in DiagOutcomes : PTerminal(t, diag)
    \/ \E t \in 1..Len(threads) : PFinally(t)
    \/ \E t \in 1..Len(threads), raises \in BOOLEAN, diag \in DiagOutcomes :
          GetStatus(threads[t].name, raises, diag)
    \/ \E name \in ExternalNames : ProviderCreate("rg2", name)
    \/ \E name \in ExternalNames, raises \in BOOLEAN : GetStatus(name, raises, "Unavailable")
    \/ \E diag \in {"Unavailable", "Diag"} : ListDeployments(FALSE, {}, diag)

SpecQuery == Init /\ [][NextQuery]_vars

\* Direct calls of the DeploymentStore interface while the clock runs; the
\* updates dicts are built at time 0 and applied at any time.
NextStore ==
    \/ \E record \in StoreRecords(now) : StoreCreate(record)
    \/ \E name \in StoreNames, updates \in StorePayloads(0) : StoreUpdate(name, updates)
    \/ \E name \in StoreNames : StoreGet(name)
    \/ Tick

SpecStore == Init /\ [][NextStore]_vars

\* Deletions and progress checks of two resource groups, against every
\* behaviour of the operation handle.
NextDelete ==
    \/ \E rg \in DeleteRGs, found \in BOOLEAN, accepted \in BOOLEAN : DeleteEnvironment(rg, found, accepted)
    \/ \E rg \in DeleteRGs, answer \in HandleAnswers : CheckDeleteProgress(rg, answer)
    \/ Tick

SpecDelete == Init /\ [][NextDelete]_vars

\* get_deployment_errors against every shape of a deployment's diagnostics.
NextErrors ==
    \E get_raises \in BOOLEAN, has_error \in BOOLEAN,
       details \in DetailLists(MaxDetails, MaxNested),
       ops \in OperationLists(MaxOperations), ops_raise \in BOOLEAN :
        GetDeploymentErrors(get_raises, has_error, details, ops, ops_raise)

SpecErrors == Init /\ [][NextErrors]_vars

----------------------------------------------------------------------------
(* Properties *)

Active(t) == threads[t].pc # "done"

\* the deployment_update events of thread t that are not the final one
Updates(t) == SelectSeq(events[t], LAMBDA e : e.topic = "deployment_update" /\ ~e.completed)

UpdatePolls(t) == {Updates(t)[i].poll : i \in 1..Len(Updates(t))}

\* polls 1, 7, 13, ... among the first n
HeartbeatPolls(n) == {p \in 1..n : (p - 1) % HeartbeatEvery = 0}

\* polls among the first n whose state differs from the poll before
ChangePolls(t, n) == {p \in 2..n : threads[t].polled[p] # threads[t].polled[p - 1]}

\* the first n polls of thread t all reported a non-terminal state
AllNonTerminal(t, n) == \A p \in 1..n : threads[t].polled[p] \in NonTerminal

\* C1: for every deployment_name at most one monitor_deployment_status thread
\* is active at any time, also when two deploy requests for one template fall
\* in the same second.
C1_AtMostOneMonitorPerName ==
    \A t1, t2 \in 1..Len(threads) :
        (t1 # t2 /\ Active(t1) /\ Active(t2)) => threads[t1].name # threads[t2].name

\* C2: every successful submission, through /deploy or /deploy-environment,
\* creates a deployment_statuses entry with status Running and spawns exactly
\* one Poller for the returned deployment_name.
C2_SubmissionRegistersAndSpawns ==
    [][(reqs' = reqs + 1 /\ response'.success
            /\ response'.route \in {"deploy", "deploy-environment"})
        => /\ response'.deployment_name \in DOMAIN deployment_statuses'
           /\ deployment_statuses'[response'.deployment_name].status = "Running"
           /\ Len(threads') = Len(threads) + 1
           /\ threads'[Len(threads')].name = response'.deployment_name]_vars

\* a History Store row of deployment name
Rows(name) == {i \in 1..Len(store) : store[i].deployment_name = name}

\* C3: after the poll sequence Running, Running, Succeeded the History Store
\* holds a record of the deployment with status Succeeded, end_time set,
\* duration_seconds > 0 and empty error_details.
C3_SucceededRunIsRecorded ==
    \A t \in 1..Len(threads) :
        (threads[t].pc = "done" /\ threads[t].polled = <<"Running", "Running", "Succeeded">>)
        => \E i \in Rows(threads[t].name) :
              /\ store[i].status = "Succeeded"
              /\ store[i].end_time # <<>>
              /\ store[i].duration_seconds # <<>>
              /\ store[i].duration_seconds[1] > 0
              /\ store[i].error_details = "None"

\* C4: after the poll sequence Running, Failed with diagnostics available the
\* History Store holds a record with status Failed and non-empty
\* error_details, and the last deployment_update event carries completed=true
\* and the error_details that were persisted.
C4_FailedRunIsRecorded ==
    \A t \in 1..Len(threads) :
        (threads[t].pc = "done" /\ threads[t].polled = <<"Running", "Failed">>
            /\ threads[t].diag = "Diag")
        => /\ events[t] # <<>>
           /\ events[t][Len(events[t])].topic = "deployment_update"
           /\ events[t][Len(events[t])].completed
           /\ \E i \in Rows(threads[t].name) :
                 /\ store[i].status = "Failed"
                 /\ store[i].error_details # "None"
                 /\ store[i].error_details = events[t][Len(events[t])].error_details

C6_ChangeEmissionsAddToHeartbeats ==
    \A t \in 1..Len(threads) :
        AllNonTerminal(t, threads[t].status_count)
        => Len(Updates(t)) = Cardinality(HeartbeatPolls(threads[t].status_count))
                             + Cardinality(ChangePolls(t, threads[t].status_count))

\* C6 amended: over non-terminal polls a poll emits one update event exactly
\* when it is a heartbeat poll (1, 7, 13, ...) or its state differs from the
\* poll before; a change that falls on a heartbeat poll emits one event, not
\* two.
C6_EmitsOnHeartbeatOrChange ==
    \A t \in 1..Len(threads) :
        AllNonTerminal(t, threads[t].status_count)
        => /\ UpdatePolls(t) = HeartbeatPolls(threads[t].status_count)
                               \cup ChangePolls(t, threads[t].status_count)
           /\ Len(Updates(t)) = Cardinality(UpdatePolls(t))

C6_Witness ==
    \E t \in 1..Len(threads) :
        /\ threads[t].status_count >= 8
        /\ AllNonTerminal(t, threads[t].status_count)
        /\ 7 \in ChangePolls(t, threads[t].status_count)
        /\ 3 \in ChangePolls(t, threads[t].status_count)
        /\ Len(Updates(t)) = 3

\* some event with completed=true has been emitted for deployment name
CompletedEmitted(name) ==
    \E u \in 1..Len(events) : \E i \in 1..Len(events[u]) :
        events[u][i].completed /\ events[u][i].deployment_name = name

\* C7: once a deployment_update event with completed=true has been emitted
\* for a deployment_name, no further deployment_update or deployment_error
\* event is emitted for that deployment_name.
C7_CompletedIsLastEvent ==
    [][\A t \in 1..Len(events) :
          Len(events'[t]) > Len(events[t]) => ~CompletedEmitted(threads[t].name)]_vars

\* C8: a deploy that fails (unknown template, invalid template, start call
\* rejected) adds no entry to deployment_manager.deployments or
\* deployment_statuses, creates no History Store record and spawns no Poller;
\* on the first two failures the start call is not made.
C8_FailedDeployLeavesTrackingUnchanged ==
    [][(reqs' = reqs + 1 /\ response'.route = "deploy" /\ ~response'.success)
        => /\ deployments' = deployments
           /\ deployment_statuses' = deployment_statuses
           /\ store' = store
           /\ threads' = threads
           /\ azure' = azure
           /\ response'.error \in {"NotFound", "ValidationFailed", "SubmissionFailed"}
           /\ response'.error = "SubmissionFailed" => begin_calls' = begin_calls + 1
           /\ response'.error \in {"NotFound", "ValidationFailed"} => begin_calls' = begin_calls]_vars

C8_Witness ==
    /\ response.route = "deploy"
    /\ ~response.success
    /\ response.error = "SubmissionFailed"
    /\ Len(deployments) = 1
    /\ Len(threads) = 1
    /\ begin_calls = 2

\* the step is a list_deployments call
ListStep == reqs' = reqs + 1 /\ response'.route = "list"

\* deployment names the entries of a list_deployments result stand for
ResultNames(result) == {result[i].key : i \in 1..Len(result)}

\* C9: a deployment that exists on the provider under a resource group with
\* the ownership tags and was never submitted through deploy_template is in
\* the result of one list_deployments call and is added to the Registry,
\* whatever entries the Registry holds at the call.
C9_ExternalDeploymentIsDiscovered ==
    [][(ListStep /\ ~listed'.rg_list_raised /\ listed'.failing = {})
        => \A i \in 1..Len(azure) :
              (azure[i].name \in ExternalNames /\ Owned(RGTags(azure[i].rg)))
              => /\ \E k \in 1..Len(listed'.result) :
                        listed'.result[k].keyed /\ listed'.result[k].key = azure[i].name
                 /\ azure[i].name \in Keys(deployments')]_vars

\* C10: list_deployments returns every Registry entry plus the deployments
\* of the reachable tagged resource groups, also when the listing of some
\* resource groups, or of the resource groups themselves, raises.
C10_PartialListingIsComplete ==
    [][ListStep
        => /\ \A k \in 1..Len(deployments) : \E m \in 1..Len(listed'.result) :
                  listed'.result[m] = deployments[k]
           /\ \A i \in 1..Len(azure) :
                  (~listed'.rg_list_raised /\ Owned(RGTags(azure[i].rg))
                      /\ azure[i].rg \notin listed'.failing)
                  => azure[i].name \in ResultNames(listed'.result)]_vars

\* the step is a direct update_deployment call
UpdateStep == storeop'.op = "update" /\ storeop'.count = storeop.count + 1

\* C11: once a History Store record has a terminal status, no update_deployment
\* call, with any payload, sets its end_time or duration_seconds back to null
\* or changes its status to a non-terminal value.
C11_TerminalRecordIsMonotone ==
    [][UpdateStep
        => \A i \in 1..Len(store) :
              store[i].status \in Terminal
              => /\ store'[i].status \in Terminal
                 /\ store[i].end_time # <<>> => store'[i].end_time # <<>>
                 /\ store[i].duration_seconds # <<>> => store'[i].duration_seconds # <<>>]_vars

Finalized(t) == threads[t].pc \in {"finally", "done"} /\ threads[t].cur \in Terminal
                /\ events[t] # <<>> /\ events[t][Len(events[t])].completed

RepeatedUpdateStep ==
    /\ UpdateStep
    /\ storeop.op = "update"
    /\ storeop'.name = storeop.name
    /\ storeop'.updates = storeop.updates

\* C14 as stated: applying update_deployment(name, fields) a second time
\* leaves the stored records exactly as the first application left them.
C14_UpdateTwiceIsUpdateOnce ==
    [][RepeatedUpdateStep => store' = store]_vars

\* C14 amended: a second application of update_deployment(name, fields)
\* changes no column but updated_at, and changes nothing at all when fields
\* has no updated_at key.
C14_UpdateTwiceSameButUpdatedAt ==
    [][RepeatedUpdateStep
        => /\ Len(store') = Len(store)
           /\ \A i \in 1..Len(store) : \A c \in DOMAIN store[i] \ {"updated_at"} :
                 store'[i][c] = store[i][c]
           /\ "updated_at" \notin DOMAIN storeop'.updates[1] => store' = store]_vars

C14_Witness ==
    /\ storeop.op = "update"
    /\ storeop.count = 3
    /\ storeop.updates[1] \in FinalPayloads(0)
    /\ now = 1
    /\ \E i \in 1..Len(store) :
          /\ store[i].deployment_name = storeop.name
          /\ store[i].status = "Succeeded"
          /\ store[i].end_time = <<0>>
          /\ store[i].updated_at = <<1>>

\* the fields of a DeploymentRecord the caller supplies
RecordFields == {"deployment_name", "resource_group", "template_name", "status",
                 "start_time", "end_time", "duration_seconds", "parameters",
                 "outputs", "error_details", "created_at", "updated_at"}

\* C15: for every DeploymentRecord r, empty parameters, outputs or
\* error_details included, create_deployment(r) followed by
\* get_deployment(r.deployment_name) returns a record equal to r on every
\* field.
C15_CreateGetRoundTrip ==
    [][(storeop.op = "create" /\ storeop'.op = "get"
            /\ storeop'.count = storeop.count + 1 /\ storeop'.name = storeop.name)
        => /\ storeop'.result # <<>>
           /\ \A c \in RecordFields : storeop'.result[1][c] = storeop.record[1][c]]_vars

\* C16: for a failed deployment whose top-level error has d details and whose
\* operation list has at least one Failed operation, get_deployment_errors
\* returns success=true and an errors list of length d + 2: the top-level
\* error at index 0, the d details in order, then one failed_operations bundle
\* holding every Failed operation.
C16_ErrorsListShape ==
    (/\ error_result.called
     /\ ~error_result.get_raises
     /\ error_result.has_error
     /\ ~error_result.ops_raise
     /\ \E i \in 1..Len(error_result.operations) : error_result.operations[i] = "Failed")
    => LET errors == error_result.result.errors
           d == error_result.details
       IN /\ error_result.result.success
          /\ Len(errors) = d + 2
          /\ error_result.result.total_errors = d + 2
          /\ errors[1].type = "error"
          /\ \A k \in 1..d : errors[k + 1].type = "detail" /\ errors[k + 1].index = k
          /\ errors[d + 2].type = "failed_operations"
          /\ errors[d + 2].operations = FailedOperations(error_result.operations)
          /\ \A i \in 1..Len(error_result.operations) :
                error_result.operations[i] = "Failed"
                => \E k \in 1..Len(errors[d + 2].operations) :
                      errors[d + 2].operations[k].resource_name = i

C16_Witness ==
    /\ error_result.called
    /\ error_result.has_error
    /\ error_result.details = 2
    /\ error_result.operations = <<"Succeeded", "Failed">>
    /\ error_result.result.success
    /\ Len(error_result.result.errors) = 4
    /\ error_result.result.errors[4].type = "failed_operations"

\* the step is a check_delete_progress call
CheckStep == delete_response'.call = "check" /\ delete_response'.count = delete_response.count + 1

\* C17: check_delete_progress removes the tracked entry of a resource group
\* exactly when the single provider check yields completed or failed, leaves
\* it tracked when the operation is still running, and after a removal the
\* next check for that resource group reports that no delete operation is
\* tracked.
C17_RemovedExactlyOnTerminalResult ==
    [][CheckStep
        => LET rg == delete_response'.resource_group IN
           /\ rg \in DOMAIN delete_operations
              => /\ (rg \notin DOMAIN delete_operations')
                        <=> (check_delete_status(delete_response'.answer) \in {"completed", "failed"})
                 /\ delete_response'.answer = "not_done" => rg \in DOMAIN delete_operations'
           /\ rg \in delete_response.removed
              => /\ ~delete_response'.success
                 /\ delete_response'.message = "NoDeleteOperation"
                 /\ delete_operations' = delete_operations
           /\ \A other \in DOMAIN delete_operations \ {rg} :
                 other \in DOMAIN delete_operations'
                 /\ delete_operations'[other] = delete_operations[other]]_vars

C17_Witness ==
    /\ delete_response.call = "check"
    /\ delete_response.resource_group \in delete_response.removed
    /\ delete_response.message = "NoDeleteOperation"
    /\ delete_response.count = 4
    /\ DOMAIN delete_operations # {}

\* C18: for a tracked resource group every check_delete_progress result has
\* status running, completed or failed and reflects the provider's answer for
\* that check; running is returned only for a handle that is not done (or
\* whose done()/result() call errors), and the status stored in a tracked
\* entry is always running, completed or failed.
C18_StatusIsRunningCompletedFailed ==
    [][CheckStep
        => /\ delete_response'.resource_group \in DOMAIN delete_operations
              => /\ delete_response'.status \in {"running", "completed", "failed"}
                 /\ delete_response'.status = "completed" <=> delete_response'.answer = "done_true"
                 /\ delete_response'.status = "failed" <=> delete_response'.answer = "done_false"
                 /\ delete_response'.status = "running"
                        => delete_response'.answer \in {"not_done", "raises"}
           /\ \A rg \in DOMAIN delete_operations' :
                 delete_operations'[rg].status \in {"running", "completed", "failed"}]_vars

\* the deployment_error events of thread t
Errors(t) == SelectSeq(events[t], LAMBDA e : e.topic = "deployment_error")

\* a poll of thread t returned no deployment
NotFound(t) == \E i \in 1..Len(events[t]) :
    events[t][i].topic = "deployment_error" /\ events[t][i].status = "NotFound"

\* C19: when a poll returns no deployment the Poller emits one
\* deployment_error event, stops polling, writes nothing to the History Store
\* and emits no completed event.
C19_VanishedDeploymentStopsPoller ==
    [][\A t \in 1..Len(threads) :
          (NotFound(t))'
          => /\ Len(Errors(t)') = 1
             /\ events'[t][Len(events'[t])].topic = "deployment_error"
             /\ \A i \in 1..Len(events'[t]) : ~events'[t][i].completed
             /\ threads'[t].pc \in {"finally", "done"}
             /\ threads'[t].polled = threads[t].polled
             /\ threads'[t].status_count = threads[t].status_count
             /\ store' = store]_vars

C19_Witness ==
    \E t \in 1..Len(threads) :
        /\ NotFound(t)
        /\ threads[t].pc = "done"
        /\ threads[t].polled = <<"Accepted", "Running">>
        /\ Len(events[t]) = 3
        /\ Rows(threads[t].name) = {}

\* a poll request of thread t raised
PollFailed(t) == \E i \in 1..Len(events[t]) :
    events[t][i].topic = "deployment_error" /\ events[t][i].status = "PollError"

\* C20: when a poll request raises, the Poller aborts without retrying, emits
\* exactly one deployment_error event and writes no History Store record, and
\* its steps from the failure on neither stop nor alter the Pollers of other
\* deployments, their tracking entries included, nor reach the caller.
C20_PollErrorIsContained ==
    [][\A t \in 1..Len(threads) :
          ((PollFailed(t))' /\ threads'[t] # threads[t])
          => /\ Len(Errors(t)') = 1
             /\ events'[t][Len(events'[t])].status = "PollError"
             /\ threads'[t].pc \in {"finally", "done"}
             /\ threads'[t].polled = threads[t].polled
             /\ threads'[t].status_count = threads[t].status_count
             /\ store' = store
             /\ response' = response
             /\ \A u \in 1..Len(threads) \ {t} :
                   /\ threads'[u] = threads[u]
                   /\ events'[u] = events[u]
                   /\ (Active(u) /\ threads[u].rg # threads[t].rg
                          /\ threads[u].name \in DOMAIN deployment_statuses)
                      => /\ threads[u].name \in DOMAIN deployment_statuses'
                         /\ deployment_statuses'[threads[u].name] = deployment_statuses[threads[u].name]]_vars

\* C21: when a poll reports Failed and get_deployment_errors returns
\* success=false, the Poller still finalizes: the History Store holds the
\* terminal status, the final event has completed=true and no error_details,
\* and the deployment_statuses entry is removed.
C21_FailedWithoutDiagnosticsFinalizes ==
    \A t \in 1..Len(threads) :
        (threads[t].pc = "done" /\ threads[t].cur = "Failed"
            /\ threads[t].diag = "Unavailable")
        => /\ events[t][Len(events[t])].completed
           /\ events[t][Len(events[t])].error_details = "None"
           /\ threads[t].name \notin DOMAIN deployment_statuses
           /\ \E i \in Rows(threads[t].name) : store[i].status = "Failed"

\* the deployment_statuses entry of thread t was removed from outside
Cancelled(t) == threads[t].cancelled_at # "None"

\* C22: once the deployment_statuses entry of a Poller has been removed from
\* outside, the Poller polls the provider no more, writes no History Store
\* record and emits no completed event: it stops at its next loop check.
C22_CancelledPollerStopsQuietly ==
    [][\A t \in 1..Len(threads) :
          (Cancelled(t) /\ threads'[t] # threads[t])
          => /\ threads'[t].polled = threads[t].polled
             /\ \A i \in 1..Len(events'[t]) : i > Len(events[t]) => ~events'[t][i].completed
             /\ store' = store
             /\ threads'[t].pc \in {"finally", "done"}]_vars

C30_CancelEmitsNoError ==
    \A t \in 1..Len(threads) :
        Cancelled(t)
        => \A i \in 1..Len(events[t]) :
              ~(events[t][i].topic = "deployment_error" /\ events[t][i].status = "KeyError")

\* the step is one of a Poller of deployment name
OwnPollerStep(name) ==
    \E t \in 1..Len(threads) : threads[t].name = name /\ threads'[t] # threads[t]

\* C27: after the Submitter has inserted the tracking entries of a
\* deployment_name, only that deployment's own Poller changes or deletes
\* them: no status query, listing call or other request writes to them.
C27_SingleWriterPerKey ==
    [][\A t \in 1..Len(threads) :
          LET name == threads[t].name IN
          /\ name \in DOMAIN deployment_statuses
             => \/ /\ name \in DOMAIN deployment_statuses'
                   /\ deployment_statuses'[name] = deployment_statuses[name]
                \/ OwnPollerStep(name)
          /\ name \in Keys(deployments)
             => \/ /\ name \in Keys(deployments')
                   /\ Get(deployments', name) = Get(deployments, name)
                \/ OwnPollerStep(name)]_vars

\* C23: the deployment_update events of one deployment_name are emitted in an
\* order in which neither elapsed_time nor the poll counter ever decreases,
\* over every interleaving of Pollers.
C23_EventsOfANameAreMonotonic ==
    [][\A t \in 1..Len(events) :
          Len(events'[t]) > Len(events[t])
          => LET e == events'[t][Len(events'[t])] IN
             e.topic = "deployment_update"
             => \A u \in 1..Len(events) : \A i \in 1..Len(events[u]) :
                   (events[u][i].deployment_name = e.deployment_name
                        /\ events[u][i].topic = "deployment_update")
                   => /\ e.elapsed_time >= events[u][i].elapsed_time
                      /\ e.poll >= events[u][i].poll]_vars

\* C24: finalization stores the Poller's elapsed time as duration_seconds and
\* the finalization instant as end_time, and every History Store record with
\* start_time and end_time set has duration_seconds = end_time - start_time.
C24_DurationIsEndMinusStart ==
    /\ \A i \in 1..Len(store) :
          (store[i].start_time # <<>> /\ store[i].end_time # <<>>)
          => store[i].duration_seconds = <<store[i].end_time[1] - store[i].start_time[1]>>
    /\ \A t \in 1..Len(threads) :
          Finalized(t)
          => \E i \in Rows(threads[t].name) :
                /\ store[i].end_time # <<>>
                /\ store[i].duration_seconds = <<threads[t].elapsed>>

\* the number of detail errors at every depth under a details list
RECURSIVE DetailCount(_)
DetailCount(details) ==
    IF details = <<>> THEN 0
    ELSE 1 + Head(details) + DetailCount(Tail(details))

\* C25: get_deployment_errors appends the detail errors of the top-level
\* error recursively: every detail at every depth is an entry of the errors
\* list.
C25_NestedDetailsAreAppended ==
    (error_result.called /\ ~error_result.get_raises /\ error_result.has_error)
    => Len(SelectSeq(error_result.result.errors, LAMBDA e : e.type = "detail"))
          = DetailCount(error_result.nested)

\* the step is a delete_environment call
DeleteStep == delete_response'.call = "delete" /\ delete_response'.count = delete_response.count + 1

\* C26: a delete_environment call for a resource group whose deletion is
\* already tracked replaces the tracked entry (last write wins): the resource
\* group keeps exactly one entry, it holds the handle of the later call, and
\* every later check_delete_progress polls that handle, never a replaced one.
C26_SecondDeleteReplacesFirst ==
    [][/\ (DeleteStep /\ delete_response'.success
                /\ delete_response'.resource_group \in DOMAIN delete_operations)
          => LET rg == delete_response'.resource_group IN
             /\ DOMAIN delete_operations' = DOMAIN delete_operations
             /\ delete_operations'[rg].operation = delete_response'.operation
             /\ delete_operations'[rg].operation # delete_operations[rg].operation
             /\ delete_operations'[rg].status = "running"
             /\ \A other \in DOMAIN delete_operations \ {rg} :
                   delete_operations'[other] = delete_operations[other]
       /\ (CheckStep /\ delete_response'.resource_group \in DOMAIN delete_operations)
          => /\ delete_response'.operation
                    = delete_operations[delete_response'.resource_group].operation
             /\ delete_response'.operation \notin delete_response'.replaced
             /\ \A rg \in DOMAIN delete_operations' :
                   delete_operations'[rg].operation = delete_operations[rg].operation]_vars

C26_Witness ==
    /\ delete_response.call = "check"
    /\ delete_response.count = 3
    /\ delete_response.replaced = {1}
    /\ delete_response.operation = 2
    /\ delete_response.answer = "not_done"
    /\ delete_response.resource_group \in DOMAIN delete_operations
    /\ delete_operations[delete_response.resource_group].operation = 2
    /\ Cardinality(DOMAIN delete_operations) = 1

\* C29: whatever states the polls report, no 6 consecutive polls of a Poller
\* pass without a deployment_update event: every poll 1, 7, 13, ... counted
\* from the Poller's start emits one, also when state changes have emitted
\* events in between, so at most 5 consecutive polls are silent.
C29_AtMostFiveSilentPolls ==
    \A t \in 1..Len(threads) :
        LET n == threads[t].status_count
            emitted == {events[t][i].poll :
                          i \in {j \in 1..Len(events[t]) : events[t][j].topic = "deployment_update"}}
        IN /\ HeartbeatPolls(n) \subseteq emitted
           /\ \A p \in 1..n : p + HeartbeatEvery - 1 <= n
                 => \E q \in p..(p + HeartbeatEvery - 1) : q \in emitted

C29_Witness ==
    \E t \in 1..Len(threads) :
        /\ threads[t].status_count = 12
        /\ AllNonTerminal(t, 12)
        /\ ChangePolls(t, 12) = {4}
        /\ UpdatePolls(t) = {1, 4, 7}
        /\ {8, 9, 10, 11, 12} \cap UpdatePolls(t) = {}

====
